---- MODULE Spec2Model ----
(***************************************************************************)
(* SkyRoute Agents: the inquiry router (agents/inquiry_router.py), the     *)
(* analytics agent's query resolution and conversational memory            *)
(* (agents/flight_analytics_agent.py), the status agent                    *)
(* (agents/flight_status_agent.py) and the interactive loop (main.py).     *)
(*                                                                         *)
(* A Python str is a sequence of one-character strings, so that upper(),   *)
(* lower(), strip(), the `in` substring test and the regular expressions   *)
(* are computed character by character.  A Python Optional is a sequence   *)
(* of length at most one: None is << >>, a value v is << v >>.  A Python   *)
(* dict is a function whose domain is its set of keys.                     *)
(***************************************************************************)
EXTENDS Integers, Sequences, FiniteSets, TLC

VARIABLES
    memory,     \* FlightAnalyticsAgent.memory
    query,      \* the query of the current turn (<< >> before the first turn)
    parsed,     \* the dict _parse_query returned in the current turn
    response,   \* the text returned by the turn, by the message it is
    calls,      \* the provider calls made during the current turn, in order
    memBefore,  \* memory as it was when the current turn started
    prevMissingRoute, \* the previous turn ended with a missing-route message
    pc,         \* position of the caller's loop
    use_llm_arg,    \* the use_llm argument of InquiryRouterAgent.__init__
    has_llm_client, \* InquiryRouterAgent.llm_client is not None
    use_llm,        \* InquiryRouterAgent.use_llm
    has_analytics,  \* InquiryRouterAgent.analytics_agent is not None
    llm_reply,  \* what llm_client did in the current turn, None if not called
    intent,     \* the working intent of the current turn of handle_query
    raised,     \* handle_query left the current turn by an exception
    lastRouted  \* the provider handle_query called in the previous turn, "" if none

vars == << memory, query, parsed, response, calls, memBefore, prevMissingRoute,
           pc, use_llm_arg, has_llm_client, use_llm, has_analytics, llm_reply,
           intent, raised, lastRouted >>

----------------------------------------------------------------------------
(* Python values *)

None == << >>

Some(v) == << v >>

\* Python truthiness of an Optional str and of an Optional int: None, "" and 0
\* are false.
TruthyStr(o) == o # None /\ o[1] # << >>

TruthyInt(o) == o # None /\ o[1] # 0

\* the same of an Optional name that the model keeps as one TLA+ string
TruthyName(o) == o # None /\ o[1] # ""

\* dict.get(key): None when the key is absent.
Get(d, k) == IF k \in DOMAIN d THEN Some(d[k]) ELSE None

\* dict.get(key, default)
GetOr(d, k, default) == IF k \in DOMAIN d THEN d[k] ELSE default

----------------------------------------------------------------------------
(* Characters and str methods *)

LowerLetters == << "a", "b", "c", "d", "e", "f", "g", "h", "i", "j", "k", "l", "m",
                   "n", "o", "p", "q", "r", "s", "t", "u", "v", "w", "x", "y", "z" >>

UpperLetters == << "A", "B", "C", "D", "E", "F", "G", "H", "I", "J", "K", "L", "M",
                   "N", "O", "P", "Q", "R", "S", "T", "U", "V", "W", "X", "Y", "Z" >>

DigitChars == << "0", "1", "2", "3", "4", "5", "6", "7", "8", "9" >>

Range(f) == { f[i] : i \in DOMAIN f }

UpperSet == Range(UpperLetters)

LowerSet == Range(LowerLetters)

DigitSet == Range(DigitChars)

IsUpper(c) == c \in UpperSet

IsLower(c) == c \in LowerSet

IsDigit(c) == c \in DigitSet

IsSpace(c) == c \in { " ", "\t", "\n" }

\* \w of the re module
IsWordChar(c) == IsUpper(c) \/ IsLower(c) \/ IsDigit(c) \/ c = "_"

IndexIn(seq, c) == CHOOSE i \in DOMAIN seq : seq[i] = c

ToUpper == [ c \in LowerSet |-> UpperLetters[IndexIn(LowerLetters, c)] ]

ToLower == [ c \in UpperSet |-> LowerLetters[IndexIn(UpperLetters, c)] ]

DigitValue == [ c \in DigitSet |-> IndexIn(DigitChars, c) - 1 ]

UpperChar(c) == IF IsLower(c) THEN ToUpper[c] ELSE c

LowerChar(c) == IF IsUpper(c) THEN ToLower[c] ELSE c

\* str.upper()
Upper(s) == [ i \in DOMAIN s |-> UpperChar(s[i]) ]

\* str.lower()
Lower(s) == [ i \in DOMAIN s |-> LowerChar(s[i]) ]

\* str.strip()
Strip(s) ==
    IF \A i \in DOMAIN s : IsSpace(s[i]) THEN << >>
    ELSE LET first == CHOOSE i \in DOMAIN s :
                          ~IsSpace(s[i]) /\ \A j \in 1..(i - 1) : IsSpace(s[j])
             last  == CHOOSE i \in DOMAIN s :
                          ~IsSpace(s[i]) /\ \A j \in (i + 1)..Len(s) : IsSpace(s[j])
         IN  SubSeq(s, first, last)

\* `sub in s` for two str
Contains(s, sub) ==
    \E i \in 1..(Len(s) - Len(sub) + 1) : SubSeq(s, i, i + Len(sub) - 1) = sub

\* int(s) of a str of decimal digits
RECURSIVE ParseInt(_)
ParseInt(s) ==
    IF s = << >> THEN 0
    ELSE 10 * ParseInt(SubSeq(s, 1, Len(s) - 1)) + DigitValue[s[Len(s)]]

----------------------------------------------------------------------------
(* Regular expressions, as the re module matches them *)

\* \b at the gap before position i of s (1 <= i <= Len(s) + 1)
Boundary(s, i) ==
    LET before == i > 1 /\ IsWordChar(s[i - 1])
        after  == i <= Len(s) /\ IsWordChar(s[i])
    IN  before # after

\* the end (exclusive) of the longest run of digits from i on: \d+
DigitsEnd(s, i) ==
    CHOOSE j \in i..(Len(s) + 1) :
        /\ \A k \in i..(j - 1) : IsDigit(s[k])
        /\ j = Len(s) + 1 \/ ~IsDigit(s[j])

\* the end (exclusive) of the longest run of white space from i on: \s+
SpacesEnd(s, i) ==
    CHOOSE j \in i..(Len(s) + 1) :
        /\ \A k \in i..(j - 1) : IsSpace(s[k])
        /\ j = Len(s) + 1 \/ ~IsSpace(s[j])

\* leftmost element of a set of match positions, None if there is none
First(S) == IF S = {} THEN None ELSE Some(CHOOSE i \in S : \A j \in S : i <= j)

\* a set of positions as the ascending sequence re.findall reports
RECURSIVE Ascending(_)
Ascending(S) ==
    IF S = {} THEN << >>
    ELSE LET m == CHOOSE i \in S : \A j \in S : i <= j
         IN  << m >> \o Ascending(S \ { m })

----------------------------------------------------------------------------
(* FlightAnalyticsAgent._parse_query: what it reads out of the query text *)

\* the phrases that select 'day_of_week_delays'
day_phrases ==
    { <<"d","a","y"," ","o","f"," ","w","e","e","k">>, <<"w","h","i","c","h"," ","d","a","y">>,
      <<"w","h","a","t"," ","d","a","y">>, <<"w","e","e","k","d","a","y">>,
      <<"m","o","n","d","a","y">>, <<"t","u","e","s","d","a","y">>,
      <<"w","e","d","n","e","s","d","a","y">>, <<"t","h","u","r","s","d","a","y">>,
      <<"f","r","i","d","a","y">>, <<"s","a","t","u","r","d","a","y">>,
      <<"s","u","n","d","a","y">> }

\* common_words: 3-letter words that are not taken as airport codes
common_words ==
    { <<"T","H","E">>, <<"A","N","D">>, <<"F","O","R">>, <<"A","R","E">>, <<"Y","O","U">>, <<"T","O","P">>,
      <<"D","A","Y">>, <<"H","A","S">>, <<"F","E","W">>, <<"W","H","O">>, <<"W","H","Y">>, <<"H","O","W">>,
      <<"C","A","N">>, <<"G","E","T">>, <<"S","E","T">>, <<"R","U","N">>, <<"N","E","W">>, <<"O","L","D">>,
      <<"B","I","G">>, <<"B","A","D">>, <<"E","N","D">>, <<"U","S","E">>, <<"W","A","Y">>, <<"M","A","N">>,
      <<"S","E","E">>, <<"H","I","M">>, <<"T","W","O">>, <<"N","O","W">>, <<"I","T","S">>, <<"D","I","D">>,
      <<"Y","E","S">>, <<"H","I","S">>, <<"H","E","R">>, <<"S","H","E">>, <<"H","A","D">>, <<"O","I","L">>,
      <<"S","I","T">>, <<"B","U","T">>, <<"N","O","T">>, <<"A","L","L">>, <<"A","N","Y">>, <<"W","A","S">>,
      <<"O","N","E">>, <<"O","U","R">>, <<"O","U","T">>, <<"T","R","Y">>, <<"W","I","N">>, <<"O","W","N">>,
      <<"S","A","Y">>, <<"T","O","O">>, <<"L","E","T">>, <<"P","U","T">>, <<"A","S","K">>, <<"G","O","T">>,
      <<"H","I","T">>, <<"H","O","T">>, <<"J","O","B">>, <<"L","O","T">>, <<"M","A","P">>, <<"M","E","N">>,
      <<"N","E","T">>, <<"P","E","T">>, <<"S","U","N">>, <<"T","E","N">>, <<"V","A","N">>, <<"Y","E","T">>,
      <<"Z","O","O">> }

\* follow_up_phrases of the branch for a query without airport codes
follow_up_phrases ==
    { <<"w","h","a","t"," ","a","b","o","u","t">>, <<"h","o","w"," ","a","b","o","u","t">>,
      <<"a","n","d"," ","f","o","r">>, <<"w","h","i","c","h"," ","d","a","y">>,
      <<"w","h","a","t"," ","d","a","y">>, <<"f","e","w","e","r"," ","d","e","l","a","y","s">> }

s_what_about == <<"w","h","a","t"," ","a","b","o","u","t">>

s_how_about == <<"h","o","w"," ","a","b","o","u","t">>

s_top == <<"t","o","p">>

s_airlines == <<"a","i","r","l","i","n","e","s">>

\* parsed['type'] as the vocabulary of the query decides it
QueryType(q) ==
    IF \E p \in day_phrases : Contains(Lower(q), p)
    THEN "day_of_week_delays" ELSE "on_time_airlines"

\* 'what about' in query_lower or 'how about' in query_lower
IsContinuation(q) ==
    Contains(Lower(q), s_what_about) \/ Contains(Lower(q), s_how_about)

\* any(phrase in query_lower for phrase in follow_up_phrases)
IsFollowUp(q) == \E p \in follow_up_phrases : Contains(Lower(q), p)

\* positions where \b([A-Z]{3})\b matches in s
AirportPattern(s) ==
    { i \in 1..(Len(s) - 2) :
        /\ Boundary(s, i)
        /\ \A k \in i..(i + 2) : IsUpper(s[k])
        /\ Boundary(s, i + 3) }

\* re.findall(airport_pattern, query.upper())
PotentialCodes(q) ==
    LET s   == Upper(q)
        pos == Ascending(AirportPattern(s))
    IN  [ k \in DOMAIN pos |-> SubSeq(s, pos[k], pos[k] + 2) ]

\* airport_codes: potential_codes without the common words
AirportCodes(q) == SelectSeq(PotentialCodes(q), LAMBDA c : c \notin common_words)

\* positions where \b(19|20)\d{2}\b matches in s
YearPattern(s) ==
    { i \in 1..(Len(s) - 3) :
        /\ Boundary(s, i)
        /\ SubSeq(s, i, i + 1) \in { <<"1","9">>, <<"2","0">> }
        /\ IsDigit(s[i + 2]) /\ IsDigit(s[i + 3])
        /\ Boundary(s, i + 4) }

\* int(year_match.group()) of re.search on the query, None without a match
YearMatch(q) ==
    LET m == First(YearPattern(q))
    IN  IF m = None THEN None ELSE Some(ParseInt(SubSeq(q, m[1], m[1] + 3)))

\* \btop\s+(\d+)\b at position i of s: the span of group 1, None if no match
TopN(s, i) ==
    IF ~(Boundary(s, i) /\ i + 3 <= Len(s) /\ SubSeq(s, i, i + 2) = s_top
         /\ IsSpace(s[i + 3]))
    THEN None
    ELSE LET d == SpacesEnd(s, i + 3)
             e == DigitsEnd(s, d)
         IN  IF e > d /\ Boundary(s, e) THEN Some(<< d, e - 1 >>) ELSE None

\* \b(\d+)\s+airlines\b at position i of s: the span of group 2, None if no match
NAirlines(s, i) ==
    IF ~(Boundary(s, i) /\ IsDigit(s[i]))
    THEN None
    ELSE LET e == DigitsEnd(s, i)
             w == SpacesEnd(s, e)
         IN  IF /\ w > e
                /\ w + 7 <= Len(s)
                /\ SubSeq(s, w, w + 7) = s_airlines
                /\ Boundary(s, w + 8)
             THEN Some(<< i, e - 1 >>) ELSE None

\* int(limit_match.group(1) or limit_match.group(2)) of re.search on
\* query_lower, None without a match
LimitMatch(q) ==
    LET s == Lower(q)
        m == First({ i \in 1..Len(s) : TopN(s, i) # None \/ NAirlines(s, i) # None })
    IN  IF m = None THEN None
        ELSE LET g == IF TopN(s, m[1]) # None THEN TopN(s, m[1]) ELSE NAirlines(s, m[1])
             IN  Some(ParseInt(SubSeq(s, g[1][1], g[1][2])))

----------------------------------------------------------------------------
(* InquiryRouterAgent: what it reads out of the query text *)

\* self.flight_number_pattern.search(s), s in upper case: the first match of
\* \b[A-Z]{2}\d{2,4}\b, None without a match
FlightNumberEnd(s, i) == DigitsEnd(s, i + 2)

FlightNumberPattern(s) ==
    { i \in 1..(Len(s) - 3) :
        /\ Boundary(s, i)
        /\ IsUpper(s[i]) /\ IsUpper(s[i + 1])
        /\ FlightNumberEnd(s, i) - (i + 2) \in 2..4
        /\ Boundary(s, FlightNumberEnd(s, i)) }

\* FlightNumberMatch on the query as typed, without upper()
FlightNumberMatch_AsTyped(q) ==
    LET s == q
        m == First(FlightNumberPattern(s))
    IN  IF m = None THEN None ELSE Some(SubSeq(s, m[1], FlightNumberEnd(s, m[1]) - 1))

FlightNumberMatch(q) ==
    LET s == Upper(q)
        m == First(FlightNumberPattern(s))
    IN  IF m = None THEN None ELSE Some(SubSeq(s, m[1], FlightNumberEnd(s, m[1]) - 1))

\* airport_pattern.findall(query_upper) of _parse_analytics_query
RouterAirports(q) ==
    LET s   == Upper(q)
        pos == Ascending(AirportPattern(s))
    IN  [ k \in DOMAIN pos |-> SubSeq(s, pos[k], pos[k] + 2) ]

\* positions where \b(19[9][0-9]|20[0-3][0-9])\b matches in s
RouterYearPattern(s) ==
    { i \in 1..(Len(s) - 3) :
        /\ Boundary(s, i)
        /\ \/ SubSeq(s, i, i + 2) = <<"1","9","9">>
           \/ SubSeq(s, i, i + 1) = <<"2","0">> /\ s[i + 2] \in { "0", "1", "2", "3" }
        /\ IsDigit(s[i + 3])
        /\ Boundary(s, i + 4) }

RouterYearMatch(q) ==
    LET m == First(RouterYearPattern(q))
    IN  IF m = None THEN None ELSE Some(ParseInt(SubSeq(q, m[1], m[1] + 3)))

limit_keywords == { <<"t","o","p">>, <<"l","i","m","i","t">>, <<"f","i","r","s","t">>, <<"s","h","o","w">> }

\* \b(?:top|limit|first|show)\s+(\d+)\b at position i of s, s in lower case:
\* the span of group 1, None if no match
KeywordN(s, i) ==
    IF ~Boundary(s, i) THEN None
    ELSE LET ks == { k \in limit_keywords :
                       /\ i + Len(k) <= Len(s)
                       /\ SubSeq(s, i, i + Len(k) - 1) = k
                       /\ IsSpace(s[i + Len(k)]) }
         IN  IF ks = {} THEN None
             ELSE LET k == CHOOSE k \in ks : TRUE
                      d == SpacesEnd(s, i + Len(k))
                      e == DigitsEnd(s, d)
                  IN  IF e > d /\ Boundary(s, e) THEN Some(<< d, e - 1 >>) ELSE None

RouterDefaultLimit == 5

RouterLimitCap == 50

Min(a, b) == IF a < b THEN a ELSE b

\* limit of _parse_analytics_query: the default, or min(int(group 1), 50)
RouterLimit(q) ==
    LET s == Lower(q)
        m == First({ i \in 1..Len(s) : KeywordN(s, i) # None })
    IN  IF m = None THEN RouterDefaultLimit
        ELSE LET g == KeywordN(s, m[1])
             IN  Min(ParseInt(SubSeq(s, g[1][1], g[1][2])), RouterLimitCap)

s_from == <<"F","R","O","M">>

s_to == <<"T","O">>

\* [A-Z]{2,3} at position p of s, followed by white space (spaced) or by \b:
\* the number of letters matched, 3 before 2, and 0 if neither matches
CodeLen(s, p, spaced) ==
    LET ok(n) == /\ p + n - 1 <= Len(s)
                 /\ \A k \in p..(p + n - 1) : IsUpper(s[k])
                 /\ IF spaced THEN p + n <= Len(s) /\ IsSpace(s[p + n])
                              ELSE Boundary(s, p + n)
    IN  IF ok(3) THEN 3 ELSE IF ok(2) THEN 2 ELSE 0

\* \bFROM\s+([A-Z]{2,3})\s+TO\s+([A-Z]{2,3})\b at position i of s, s in upper
\* case: << group 1, group 2 >>, None if no match
RouteAt(s, i) ==
    IF ~(Boundary(s, i) /\ i + 4 <= Len(s) /\ SubSeq(s, i, i + 3) = s_from
         /\ IsSpace(s[i + 4]))
    THEN None
    ELSE LET a  == SpacesEnd(s, i + 4)
             n1 == CodeLen(s, a, TRUE)
             t  == SpacesEnd(s, a + n1)
         IN  IF n1 = 0 \/ ~(t + 2 <= Len(s) /\ SubSeq(s, t, t + 1) = s_to
                            /\ IsSpace(s[t + 2]))
             THEN None
             ELSE LET b  == SpacesEnd(s, t + 2)
                      n2 == CodeLen(s, b, FALSE)
                  IN  IF n2 = 0 THEN None
                      ELSE Some(<< SubSeq(s, a, a + n1 - 1), SubSeq(s, b, b + n2 - 1) >>)

RouteMatch(q) ==
    LET s == Upper(q)
        m == First({ i \in 1..Len(s) : RouteAt(s, i) # None })
    IN  IF m = None THEN None ELSE RouteAt(s, m[1])

\* lines 145-166, given what the patterns found
Params(airports, year, route, limit) ==
    IF Len(airports) >= 2 /\ year # None
    THEN Some([ origin |-> airports[1], destination |-> airports[2],
                year |-> year[1], limit |-> limit ])
    ELSE IF route # None /\ year # None
    THEN Some([ origin |-> route[1][1], destination |-> route[1][2],
                year |-> year[1], limit |-> limit ])
    ELSE None

\* (origin, destination, year, limit), or None
parse_analytics_query(q) ==
    Params(RouterAirports(q), RouterYearMatch(q), RouteMatch(q), RouterLimit(q))

----------------------------------------------------------------------------
(* The queries of a session *)

MaxCodes == 2

\* the words of a query joined by single spaces, empty words left out
RECURSIVE JoinWords(_)
JoinWords(ws) ==
    IF ws = << >> THEN << >>
    ELSE IF Head(ws) = << >> THEN JoinWords(Tail(ws))
    ELSE IF \A i \in 2..Len(ws) : ws[i] = << >> THEN Head(ws)
    ELSE Head(ws) \o << " " >> \o JoinWords(Tail(ws))

Leads == { << >>, <<"w","h","a","t"," ","a","b","o","u","t">>,
           <<"w","h","i","c","h"," ","d","a","y">>,
           <<"w","h","a","t"," ","a","b","o","u","t"," ","m","o","n","d","a","y">> }

Airports == { <<"S","F","O">>, <<"J","F","K">>, <<"b","o","s">> }

\* a year, or a limit in one of the two forms the limit pattern knows
Details == { << >>, <<"2","0","2","3">>, <<"2","0","2","4">>, <<"1","9","8","5">>,
             <<"t","o","p"," ","5">>, <<"5","1"," ","a","i","r","l","i","n","e","s">> }

CodeSeqs == UNION { [ 1..n -> Airports ] : n \in 0..MaxCodes }

\* the queries put to FlightAnalyticsAgent: a lead, airport codes and a detail
AgentQueries ==
    { JoinWords(<< l >> \o cs \o << d >>) :
        l \in Leads, cs \in CodeSeqs, d \in Details }

\* what _parse_query reads out of the text of q, whatever memory holds
Features(q) ==
    [ type         |-> QueryType(q),
      codes        |-> AirportCodes(q),
      continuation |-> IsContinuation(q),
      follow_up    |-> IsFollowUp(q),
      year         |-> YearMatch(q),
      limit        |-> LimitMatch(q) ]

\* Features, computed once for each query of a session
FeatureTable == [ q \in AgentQueries |-> Features(q) ]

Extract(q) == FeatureTable[q]

RouterLeads == { << >>, <<"h","o","w"," ","a","b","o","u","t">> }

FlightWords == { << >>, <<"A","A","1","2","3">>, <<"d","l","4","5">>, <<"U","A","L","1","2","3">>,
                 <<"A","A","1","2","3"," ","d","l","4","5">> }

RouteWords == { << >>, <<"b","o","s">>, <<"S","F","O"," ","J","F","K">>,
                <<"f","r","o","m"," ","L","A"," ","t","o"," ","S","F","O">> }

RouterDetails == { << >>, <<"2","0","2","4">>, <<"2","0","3","5">>, <<"1","9","8","5">>,
                   <<"2","0","2","4"," ","t","o","p"," ","5">>, <<"2","0","2","4"," ","s","h","o","w"," ","6","0">> }

\* the queries put to the router: a lead, a flight number, a route and a detail
RouterQueries ==
    { JoinWords(<< l, f, r, d >>) :
        l \in RouterLeads, f \in FlightWords, r \in RouteWords, d \in RouterDetails }

\* the lines typed at the prompt of main
Lines ==
    RouterQueries \cup { <<"e","x","i","t">>, <<" ","E","x","i","t"," ">>, <<" "," ">>, <<" ","A","A","1","2","3"," ">> }

\* what handle_query reads out of the text of q
RouterFeatures(q) == [ flight |-> FlightNumberMatch(q), params |-> parse_analytics_query(q) ]

\* RouterFeatures, computed once for each query of a session
RouterTable == [ q \in { Strip(l) : l \in Lines } |-> RouterFeatures(q) ]

RouterExtract(q) == RouterTable[q]

----------------------------------------------------------------------------
(* InquiryRouterAgent.handle_query and the providers it calls *)

\* what the call of a provider or of llm_client comes to: a returned text,
\* or an exception
Returns(text) == [ raised |-> FALSE, text |-> text ]

Raises == [ raised |-> TRUE, text |-> "" ]

\* Caught without the except clause: the exception goes on to the caller
Uncaught(r, text) == r

\* try: return <call>  except Exception: return <text>
Caught(r, text) == IF r.raised THEN Returns(text) ELSE r

\* what the flight-data service does, as FlightStatusAgent.get_status tells
\* the cases apart; "raises" is a status_agent whose get_status raises (the
\* router accepts any object with a get_status method)
StatusOutcomes ==
    { "found", "no_data", "Timeout", "ConnectionError", "HTTPError", "Exception",
      "raises" }

get_status(flight_number, st) ==
    CASE st = "found"           -> Returns("status_report")
      [] st = "no_data"         -> Returns("flight_not_found")
      [] st = "Timeout"         -> Returns("status_timeout")
      [] st = "ConnectionError" -> Returns("status_connection")
      [] st = "HTTPError"       -> Returns("status_http_error")
      [] st = "Exception"       -> Returns("status_unexpected")
      [] OTHER                  -> Raises

\* self.analytics_agent.get_cheapest_fares(...): FlightAnalyticsAgent has no
\* such method, the attribute lookup raises AttributeError
get_cheapest_fares(origin, destination, year, limit) == Raises

\* what llm_client does: raises, returns something that is no str, or
\* returns a text
LlmReplies ==
    { << "raise" >>, << "nonstring" >> } \cup
    { << "text", txt >> : txt \in { <<"s","t","a","t","u","s">>,
                                  <<"p","r","i","c","e">>,
                                  <<" ","S","t","a","t","u","s","\n">>,
                                  <<"P","R","I","C","E"," ">>,
                                  <<"d","e","l","a","y","s">> } }

s_status == <<"s","t","a","t","u","s">>

s_price == <<"p","r","i","c","e">>

\* classify_with_llm taking any text that is not "status" for "price"
classify_with_llm_Lenient(reply) ==
    IF reply[1] = "text"
    THEN LET response_clean == Lower(Strip(reply[2]))
         IN  IF response_clean = s_status THEN Some("status")
             ELSE Some("price")
    ELSE None

\* "status", "price" or None
classify_with_llm(reply) ==
    IF reply[1] = "text"
    THEN LET response_clean == Lower(Strip(reply[2]))
         IN  IF response_clean = s_status THEN Some("status")
             ELSE IF response_clean = s_price THEN Some("price")
             ELSE None
    ELSE None

\* a turn of handle_query so far: the text to return (or the exception), the
\* provider calls made and the working intent
Turn(r, cs, i) == [ raised |-> r.raised, text |-> r.text, calls |-> cs, intent |-> i ]

\* a provider call and whether it ended in an exception
StatusCall(flight_number, r) ==
    [ provider |-> "status", flight_number |-> flight_number, failed |-> r.raised ]

AnalyticsCall(p, r) ==
    [ provider |-> "analytics", origin |-> p.origin, destination |-> p.destination,
      year |-> p.year, limit |-> p.limit, failed |-> r.raised ]

\* lines 76-82 and 218-224: the call of the status agent inside try/except
CallStatus(flight_number, st) ==
    Turn(Caught(get_status(flight_number, st), "error_flight_status"),
         << StatusCall(flight_number, get_status(flight_number, st)) >>,
         "FlightStatus")

\* lines 100-106 and 242-248: the call of the analytics agent inside try/except
CallAnalytics(p) ==
    Turn(Caught(get_cheapest_fares(p.origin, p.destination, p.year, p.limit),
                "error_fare_analytics"),
         << AnalyticsCall(p, get_cheapest_fares(p.origin, p.destination, p.year,
                                                p.limit)) >>,
         "FareAnalysis")

\* route_to_status answering with the general help text of the regex path
\* when the query holds no flight number
route_to_status_GeneralHelp(f, st) ==
    IF f.flight # None THEN CallStatus(f.flight[1], st)
    ELSE Turn(Returns("help_two_types"), << >>, "FareAnalysis")

\* route_to_status going on to the analytics agent when the query holds no
\* flight number
route_to_status_Fallback(f, st) ==
    IF f.flight # None THEN CallStatus(f.flight[1], st)
    ELSE IF f.params # None THEN CallAnalytics(f.params[1])
    ELSE Turn(Returns("need_flight_number"), << >>, "FlightStatus")

\* f is what the patterns find in the query: f.flight the flight number,
\* f.params the result of _parse_analytics_query
route_to_status(f, st) ==
    IF f.flight # None THEN CallStatus(f.flight[1], st)
    ELSE Turn(Returns("need_flight_number"), << >>, "FlightStatus")

route_to_analytics(f, analytics) ==
    IF ~analytics THEN Turn(Returns("analytics_unavailable_llm"), << >>, "FareAnalysis")
    ELSE IF f.params # None THEN CallAnalytics(f.params[1])
    ELSE Turn(Returns("need_route_and_year"), << >>, "FareAnalysis")

\* lines 68-113: the regex path
route_by_regex(f, analytics, st) ==
    IF f.flight # None THEN CallStatus(f.flight[1], st)
    ELSE IF ~analytics THEN Turn(Returns("analytics_unavailable"), << >>, "FareAnalysis")
    ELSE IF f.params # None THEN CallAnalytics(f.params[1])
    ELSE Turn(Returns("help_two_types"), << >>, "FareAnalysis")

\* lines 58-113, llm_decision being None when the classifier is not used
route_query(f, llm_decision, analytics, st) ==
    IF llm_decision = Some("status") THEN route_to_status(f, st)
    ELSE IF llm_decision = Some("price") THEN route_to_analytics(f, analytics)
    ELSE route_by_regex(f, analytics, st)

\* llm is what llm_client does if it is called, st what the status service
\* does if it is called
handle_query(q, llm_on, analytics, llm, st) ==
    IF q = << >> \/ Strip(q) = << >>
    THEN Turn(Returns("empty_query_help"), << >>, "")
    ELSE route_query(RouterExtract(Strip(q)),
                     IF llm_on THEN classify_with_llm(llm) ELSE None, analytics, st)

----------------------------------------------------------------------------
(* FlightAnalyticsAgent: conversational memory and query resolution *)

\* self.memory as __init__ leaves it
EmptyMemory ==
    [ last_query_type |-> None, last_origin |-> None, last_destination |-> None,
      last_year |-> None, last_limit |-> None ]

\* self.memory['last_origin'] and self.memory['last_destination']
HasRoute(mem) == TruthyStr(mem.last_origin) /\ TruthyStr(mem.last_destination)

NeedBothAirports == [ error |-> "need_both_airports" ]

NeedAirports == [ error |-> "need_airports" ]

\* ResolveRoute with the one new airport code of a continuation taking the
\* place of the destination, the origin being kept
ResolveRoute_KeepOrigin(f, mem) ==
    IF Len(f.codes) >= 2
    THEN [ type |-> f.type, origin |-> f.codes[1], destination |-> f.codes[2] ]
    ELSE IF Len(f.codes) = 1
    THEN IF f.continuation
         THEN IF HasRoute(mem)
              THEN [ type |-> IF TruthyName(mem.last_query_type)
                              THEN mem.last_query_type[1] ELSE f.type,
                     origin |-> mem.last_origin[1],
                     destination |-> f.codes[1] ]
              ELSE [ type |-> f.type ]
         ELSE NeedBothAirports
    ELSE IF f.follow_up /\ HasRoute(mem)
         THEN [ type |-> IF /\ f.continuation
                            /\ f.type = "on_time_airlines"
                            /\ TruthyName(mem.last_query_type)
                         THEN mem.last_query_type[1] ELSE f.type,
                origin |-> mem.last_origin[1],
                destination |-> mem.last_destination[1] ]
         ELSE NeedAirports

\* the branch on len(airport_codes), f being what the query text holds: the
\* dict with 'type' and, when a route is resolved, 'origin' and 'destination',
\* or the dict with 'error'
ResolveRoute(f, mem) ==
    IF Len(f.codes) >= 2
    THEN [ type |-> f.type, origin |-> f.codes[1], destination |-> f.codes[2] ]
    ELSE IF Len(f.codes) = 1
    THEN IF f.continuation
         THEN IF HasRoute(mem)
              THEN IF /\ f.codes[1] # mem.last_origin[1]
                      /\ f.codes[1] # mem.last_destination[1]
                   THEN [ type |-> IF TruthyName(mem.last_query_type)
                                   THEN mem.last_query_type[1] ELSE f.type,
                          origin |-> f.codes[1],
                          destination |-> mem.last_destination[1] ]
                   ELSE [ type |-> f.type,
                          origin |-> mem.last_origin[1],
                          destination |-> f.codes[1] ]
              ELSE [ type |-> f.type ]
         ELSE NeedBothAirports
    ELSE IF f.follow_up /\ HasRoute(mem)
         THEN [ type |-> IF /\ f.continuation
                            /\ f.type = "on_time_airlines"
                            /\ TruthyName(mem.last_query_type)
                         THEN mem.last_query_type[1] ELSE f.type,
                origin |-> mem.last_origin[1],
                destination |-> mem.last_destination[1] ]
         ELSE NeedAirports

\* ResolveYear borrowing memory's year without asking for a continuation
\* phrase
ResolveYear_AlwaysBorrows(f, mem) ==
    IF f.year # None THEN f.year
    ELSE IF TruthyInt(mem.last_year) THEN mem.last_year
    ELSE None

\* ResolveYear with memory's year taken before the year of the query
ResolveYear_MemoryFirst(f, mem) ==
    IF TruthyInt(mem.last_year) /\ f.continuation THEN mem.last_year
    ELSE f.year

\* parsed['year'], None when the key is not set
ResolveYear(f, mem) ==
    IF f.year # None THEN f.year
    ELSE IF TruthyInt(mem.last_year) /\ f.continuation THEN mem.last_year
    ELSE None

\* ResolveLimit borrowing memory's limit on any follow-up phrase
ResolveLimit_OnFollowUp(f, mem) ==
    IF f.limit # None THEN f.limit
    ELSE IF TruthyInt(mem.last_limit) /\ f.follow_up THEN mem.last_limit
    ELSE None

\* parsed['limit'], None when the key is not set
ResolveLimit(f, mem) ==
    IF f.limit # None THEN f.limit
    ELSE IF TruthyInt(mem.last_limit) /\ f.continuation THEN mem.last_limit
    ELSE None

\* d with d[k] = o[1] when the Optional o is set
WithKey(d, k, o) == IF o = None THEN d ELSE (k :> o[1]) @@ d

\* the dict _parse_query returns, route being the outcome of its branch on
\* len(airport_codes)
Parsed(route, year, limit) ==
    IF "error" \in DOMAIN route THEN route
    ELSE WithKey(WithKey(route, "year", year), "limit", limit)

Resolve(f, mem) == Parsed(ResolveRoute(f, mem), ResolveYear(f, mem), ResolveLimit(f, mem))

parse_query(q, mem) == Resolve(Extract(q), mem)

update_memory(parsed_query) ==
    [ last_query_type  |-> Some(parsed_query.type),
      last_origin      |-> Get(parsed_query, "origin"),
      last_destination |-> Get(parsed_query, "destination"),
      last_year        |-> Get(parsed_query, "year"),
      last_limit       |-> Get(parsed_query, "limit") ]

MinYear == 1990

MaxYear == 2030

MinLimit == 1

MaxLimit == 50

DefaultLimit == 10

\* what self.client.query(...).result() does: rows, no rows, or an exception
BqOutcomes == { "rows", "no_rows", "NotFound", "Forbidden", "BadRequest", "Exception" }

\* the text returned once the query has been sent to BigQuery
BqText(bq) ==
    CASE bq = "rows"       -> "summary"
      [] bq = "no_rows"    -> "no_flights"
      [] bq = "NotFound"   -> "db_not_found"
      [] bq = "Forbidden"  -> "db_forbidden"
      [] bq = "BadRequest" -> "db_bad_request"
      [] OTHER             -> "db_unexpected"

NoCall(text) == [ text |-> text, calls |-> << >> ]

\* year is Optional; bq is what BigQuery does if the query is sent
get_on_time_airlines(origin, destination, year, limit, bq) ==
    IF origin = << >> \/ destination = << >> THEN NoCall("need_both_airports_ranking")
    ELSE IF year # None /\ (year[1] < MinYear \/ year[1] > MaxYear)
    THEN NoCall("year_out_of_range")
    ELSE IF limit < MinLimit \/ limit > MaxLimit THEN NoCall("limit_out_of_range")
    ELSE [ text  |-> BqText(bq),
           calls |-> << [ provider |-> "bigquery", kind |-> "on_time_airlines",
                          origin |-> Upper(origin), destination |-> Upper(destination),
                          year |-> year, limit |-> Some(limit) ] >> ]

get_day_of_week_delays(origin, destination, year, bq) ==
    IF origin = << >> \/ destination = << >> THEN NoCall("need_both_airports_days")
    ELSE IF year # None /\ (year[1] < MinYear \/ year[1] > MaxYear)
    THEN NoCall("year_out_of_range")
    ELSE [ text  |-> BqText(bq),
           calls |-> << [ provider |-> "bigquery", kind |-> "day_of_week_delays",
                          origin |-> Upper(origin), destination |-> Upper(destination),
                          year |-> year, limit |-> None ] >> ]

\* the method the type of the query selects
Analysis(p, bq) ==
    IF p.type = "day_of_week_delays"
    THEN get_day_of_week_delays(p.origin, p.destination, Get(p, "year"), bq)
    ELSE get_on_time_airlines(p.origin, p.destination, Get(p, "year"),
                              GetOr(p, "limit", DefaultLimit), bq)

\* lines 78-81: memory is updated once the analysis method has returned
Routed(p, r) ==
    [ response |-> r.text, memory |-> update_memory(p), calls |-> r.calls, parsed |-> p ]

\* Dispatch writing memory before it reads parsed_query['origin'], so that
\* the KeyError comes after the write
Dispatch_WritesBeforeKeyError(p, mem, bq) ==
    IF "error" \in DOMAIN p
    THEN [ response |-> p.error, memory |-> mem, calls |-> << >>, parsed |-> p ]
    ELSE IF "origin" \notin DOMAIN p \/ "destination" \notin DOMAIN p
    THEN [ response |-> "analyze_error", memory |-> update_memory(p), calls |-> << >>,
           parsed |-> p ]
    ELSE Routed(p, Analysis(p, bq))

\* lines 52-85, p being the dict _parse_query returned.  parsed_query['origin']
\* of a dict without that key raises KeyError, which the except clause turns
\* into text.
Dispatch(p, mem, bq) ==
    IF "error" \in DOMAIN p
    THEN [ response |-> p.error, memory |-> mem, calls |-> << >>, parsed |-> p ]
    ELSE IF "origin" \notin DOMAIN p \/ "destination" \notin DOMAIN p
    THEN [ response |-> "analyze_error", memory |-> mem, calls |-> << >>, parsed |-> p ]
    ELSE Routed(p, Analysis(p, bq))

\* the turn: the response, the memory it leaves, the provider calls it made
\* and the dict _parse_query returned
analyze_flight_data(q, mem, bq) == Dispatch(parse_query(q, mem), mem, bq)

\* the two messages of _parse_query that ask for the airports
MissingRouteTexts == { "need_both_airports", "need_airports" }

----------------------------------------------------------------------------
(* A session of FlightAnalyticsAgent.analyze_flight_data calls *)

NoDict == << >>

AgentInit ==
    /\ memory = EmptyMemory
    /\ query = << >>
    /\ parsed = NoDict
    /\ response = ""
    /\ calls = << >>
    /\ memBefore = EmptyMemory
    /\ prevMissingRoute = FALSE
    /\ pc = "prompt"
    /\ use_llm_arg = FALSE
    /\ has_llm_client = FALSE
    /\ use_llm = FALSE
    /\ has_analytics = TRUE
    /\ llm_reply = None
    /\ intent = ""
    /\ raised = FALSE
    /\ lastRouted = ""

RouterVars ==
    << use_llm_arg, has_llm_client, use_llm, has_analytics, llm_reply, intent, raised,
       lastRouted >>

\* the turn of query q has come to r
Answer(q, r) ==
    /\ query' = q
    /\ parsed' = r.parsed
    /\ response' = r.response
    /\ calls' = r.calls
    /\ memory' = r.memory

\* one call of analyze_flight_data, from the query to the returned text
Analyze ==
    /\ pc = "prompt"
    /\ \E q \in AgentQueries, bq \in BqOutcomes :
         Answer(q, analyze_flight_data(q, memory, bq))
    /\ memBefore' = memory
    /\ pc' = "responded"
    /\ UNCHANGED << prevMissingRoute, RouterVars >>

\* the caller takes the text and comes back with the next query
NextQuery ==
    /\ pc = "responded"
    /\ pc' = "prompt"
    /\ prevMissingRoute' = (response \in MissingRouteTexts)
    /\ query' = << >>
    /\ parsed' = NoDict
    /\ response' = ""
    /\ calls' = << >>
    /\ memBefore' = memory
    /\ UNCHANGED << memory, RouterVars >>

AgentNext == Analyze \/ NextQuery

SpecAgent == AgentInit /\ [][AgentNext]_vars

----------------------------------------------------------------------------
(* main: the interactive loop around InquiryRouterAgent.handle_query *)

s_exit == <<"e","x","i","t">>

\* __init__ without the fallback to regex routing when no llm_client is given
Init_KeepsUseLlm ==
    /\ memory = EmptyMemory
    /\ query = << >>
    /\ parsed = NoDict
    /\ response = ""
    /\ calls = << >>
    /\ memBefore = EmptyMemory
    /\ prevMissingRoute = FALSE
    /\ pc = "prompt"
    /\ use_llm_arg \in BOOLEAN
    /\ has_llm_client \in BOOLEAN
    /\ use_llm = use_llm_arg
    /\ has_analytics \in BOOLEAN
    /\ llm_reply = None
    /\ intent = ""
    /\ raised = FALSE
    /\ lastRouted = ""

\* InquiryRouterAgent.__init__, for any arguments
Init ==
    /\ memory = EmptyMemory
    /\ query = << >>
    /\ parsed = NoDict
    /\ response = ""
    /\ calls = << >>
    /\ memBefore = EmptyMemory
    /\ prevMissingRoute = FALSE
    /\ pc = "prompt"
    /\ use_llm_arg \in BOOLEAN
    /\ has_llm_client \in BOOLEAN
    /\ use_llm = (use_llm_arg /\ has_llm_client)
    /\ has_analytics \in BOOLEAN
    /\ llm_reply = None
    /\ intent = ""
    /\ raised = FALSE
    /\ lastRouted = ""

Config == << use_llm_arg, has_llm_client, use_llm, has_analytics >>

\* the call of handle_query has come to r; an exception out of it is
\* reported by the except clause of the loop
Respond(user_query, llm, r) ==
    /\ query' = user_query
    /\ llm_reply' = llm
    /\ response' = IF r.raised THEN "main_oops" ELSE r.text
    /\ raised' = r.raised
    /\ calls' = r.calls
    /\ intent' = r.intent

\* the line as main hands it to handle_query, None when it does not
UserQuery(line) ==
    IF Lower(Strip(line)) = s_exit \/ Strip(line) = << >> THEN None ELSE Some(Strip(line))

\* lines 91-107 and 112-114: a line that is neither 'exit' nor empty goes to
\* handle_query, and the loop goes on whatever comes of it
Ask ==
    /\ pc = "prompt"
    /\ \E line \in Lines, st \in StatusOutcomes,
          llm \in (IF use_llm THEN LlmReplies ELSE { None }) :
         /\ UserQuery(line) # None
         /\ Respond(UserQuery(line)[1], llm,
                    handle_query(UserQuery(line)[1], use_llm, has_analytics, llm, st))
    /\ pc' = "responded"
    /\ memBefore' = memory
    /\ UNCHANGED << memory, parsed, prevMissingRoute, Config, lastRouted >>

\* line 88: the loop comes round to input() again
NextPrompt ==
    /\ pc = "responded"
    /\ pc' = "prompt"
    /\ query' = << >>
    /\ response' = ""
    /\ calls' = << >>
    /\ llm_reply' = None
    /\ intent' = ""
    /\ raised' = FALSE
    /\ memBefore' = memory
    /\ lastRouted' = IF calls # << >> THEN calls[1].provider ELSE ""
    /\ UNCHANGED << memory, parsed, prevMissingRoute, Config >>

\* lines 99-101: an empty line is answered without a call of handle_query
SkipEmpty ==
    /\ pc = "prompt"
    /\ \E line \in Lines : Strip(line) = << >>
    /\ response' = "ready_when_you_are"
    /\ UNCHANGED << memory, query, parsed, calls, memBefore, prevMissingRoute, pc,
                    Config, llm_reply, intent, raised, lastRouted >>

\* lines 94-96: 'exit' in any case ends the loop
Exit ==
    /\ pc = "prompt"
    /\ \E line \in Lines : Lower(Strip(line)) = s_exit
    /\ pc' = "exited"
    /\ response' = "goodbye"
    /\ UNCHANGED << memory, query, parsed, calls, memBefore, prevMissingRoute,
                    Config, llm_reply, intent, raised, lastRouted >>

\* lines 109-111: KeyboardInterrupt at the prompt ends the loop
Interrupt ==
    /\ pc = "prompt"
    /\ pc' = "exited"
    /\ response' = "safe_travels"
    /\ UNCHANGED << memory, query, parsed, calls, memBefore, prevMissingRoute,
                    Config, llm_reply, intent, raised, lastRouted >>

Next == Ask \/ NextPrompt \/ SkipEmpty \/ Exit \/ Interrupt

Spec == Init /\ [][Next]_vars

----------------------------------------------------------------------------
(* Properties of a session of analyze_flight_data calls (SpecAgent) *)

\* the turn has been answered
Answered == pc = "responded"

\* the texts that tell the user the query could not be resolved: the route
\* is missing, the year or the limit is out of range
ResolutionFailureTexts ==
    MissingRouteTexts \cup { "year_out_of_range", "limit_out_of_range" }

\* C1: a turn that fails to resolve (missing route, year outside 1990-2030,
\* limit outside 1-50) leaves the five memory fields as they were.
C1_FailedTurnKeepsMemory ==
    (Answered /\ response \in ResolutionFailureTexts) => memory = memBefore

\* C2: from empty memory, after a turn that failed for a missing route, a
\* continuation query naming fewer than two airport codes also ends with a
\* missing-route message.
C2_ContinuationAfterFailureFails ==
    ( /\ Answered
      /\ prevMissingRoute
      /\ memBefore = EmptyMemory
      /\ Extract(query).continuation
      /\ Len(Extract(query).codes) < 2 )
    => response \in MissingRouteTexts

\* memory holds a route, a year and an intent
HoldsRouteYearIntent(mem) ==
    /\ HasRoute(mem)
    /\ mem.last_year # None
    /\ mem.last_query_type # None

\* C3: with origin O, destination D, year Y and intent I in memory, a
\* continuation query without airport codes and without intent vocabulary
\* that names the year Y2 resolves to O, D, Y2 and I.
C3_ContinuationCarriesRouteAndIntent ==
    ( /\ Answered
      /\ HoldsRouteYearIntent(memBefore)
      /\ Extract(query).continuation
      /\ Extract(query).codes = << >>
      /\ Extract(query).type = "on_time_airlines"
      /\ Extract(query).year # None )
    => /\ { "type", "origin", "destination", "year" } \subseteq DOMAIN parsed
       /\ parsed.origin = memBefore.last_origin[1]
       /\ parsed.destination = memBefore.last_destination[1]
       /\ parsed.year = Extract(query).year[1]
       /\ parsed.type = memBefore.last_query_type[1]

\* "what about 2024" after SFO to JFK in 2023 resolves to SFO, JFK, 2024
C3_Witness ==
    /\ Answered
    /\ memBefore.last_origin = Some(<<"S","F","O">>)
    /\ memBefore.last_destination = Some(<<"J","F","K">>)
    /\ memBefore.last_year = Some(2023)
    /\ memBefore.last_query_type = Some("day_of_week_delays")
    /\ query = <<"w","h","a","t"," ","a","b","o","u","t"," ","2","0","2","4">>
    /\ parsed = [ type |-> "day_of_week_delays", origin |-> <<"S","F","O">>,
                  destination |-> <<"J","F","K">>, year |-> 2024 ]

\* a continuation query names one airport code, other than the origin and
\* the destination that memory holds
OneNewCode ==
    /\ Answered
    /\ Extract(query).continuation
    /\ Len(Extract(query).codes) = 1
    /\ HasRoute(memBefore)
    /\ Extract(query).codes[1] # memBefore.last_origin[1]
    /\ Extract(query).codes[1] # memBefore.last_destination[1]

ColdMissingRoute(n) == IF n = 1 THEN "need_both_airports" ELSE "need_airports"

\* C5: on empty memory a continuation query naming no or one airport code
\* gets the missing-route text of a cold query, no provider is called and
\* memory stays empty.
C5_ContinuationOnEmptyMemoryFailsCold ==
    ( /\ Answered
      /\ memBefore = EmptyMemory
      /\ Extract(query).continuation
      /\ Len(Extract(query).codes) <= 1 )
    => /\ response = ColdMissingRoute(Len(Extract(query).codes))
       /\ calls = << >>
       /\ memory = EmptyMemory

----------------------------------------------------------------------------
(* Properties of the interactive loop around handle_query (Spec) *)

\* the texts handle_query returns
RouterTexts ==
    { "empty_query_help", "status_report", "flight_not_found", "status_timeout",
      "status_connection", "status_http_error", "status_unexpected",
      "error_flight_status", "error_fare_analytics", "need_flight_number",
      "need_route_and_year", "analytics_unavailable", "analytics_unavailable_llm",
      "help_two_types" }

\* a provider call of the turn ended in an exception
ProviderFailed == \E k \in DOMAIN calls : calls[k].failed

\* the classifier was called and raised
ClassifierRaised == llm_reply = << "raise" >>

\* C6: handle_query returns a text for every query and never raises: an
\* exception of the status provider, the analytics provider or the classifier
\* becomes a response, and after the turn the loop takes the next query.
C6_HandleQueryNeverRaises ==
    Answered =>
        /\ ~raised
        /\ response \in RouterTexts
        /\ ProviderFailed => response \in { "error_flight_status", "error_fare_analytics" }
        /\ ENABLED NextPrompt

\* the classifier raises, then the status provider raises, and the turn
\* still ends with a text
C6_Witness ==
    /\ Answered
    /\ ClassifierRaised
    /\ ProviderFailed
    /\ calls[1].provider = "status"
    /\ response = "error_flight_status"
    /\ ~raised

\* the classifier was called and its answer, stripped and in lower case, is
\* the label
Answers(label) ==
    /\ llm_reply # None
    /\ llm_reply[1] = "text"
    /\ Lower(Strip(llm_reply[2])) = label

\* the classifier was called and raised, returned something that is no str,
\* or returned a text that is none of the labels
NoLabel ==
    /\ use_llm
    /\ llm_reply # None
    /\ ~Answers(s_status)
    /\ ~Answers(s_price)

\* the turn is the one the regex path makes of the query
RegexTurn(t) ==
    /\ ~t.raised
    /\ response = t.text
    /\ calls = t.calls
    /\ intent = t.intent

\* C7: when the classifier raises, returns a non-string or returns a text
\* that is none of the labels, _classify_with_llm yields None, nothing is
\* propagated, and handle_query routes the same query by the regex path.
C7_NoLabelFallsBackToRegex ==
    (Answered /\ NoLabel) =>
        /\ classify_with_llm(llm_reply) = None
        /\ ~raised
        /\ \E st \in StatusOutcomes :
             RegexTurn(route_by_regex(RouterExtract(query), has_analytics, st))

\* the classifier answers "delays" and the query goes to the analytics call
\* of the regex path
C7_Witness ==
    /\ Answered
    /\ NoLabel
    /\ llm_reply = << "text", <<"d","e","l","a","y","s">> >>
    /\ query = <<"S","F","O"," ","J","F","K"," ","2","0","2","4">>
    /\ Len(calls) = 1
    /\ calls[1].provider = "analytics"
    /\ response = "error_fare_analytics"

IsLetter(c) == IsUpper(c) \/ IsLower(c)

\* a word of s starts at i and is n letters followed by 2 to 4 digits
TokenAt(s, i, n) ==
    /\ i + n + 1 <= Len(s)
    /\ Boundary(s, i)
    /\ \A k \in 0..(n - 1) : IsLetter(s[i + k])
    /\ DigitsEnd(s, i + n) - (i + n) \in 2..4
    /\ Boundary(s, DigitsEnd(s, i + n))

\* the flight-number tokens of s whose number of letters is in ns
Tokens(s, ns) == { t \in (1..Len(s)) \X ns : TokenAt(s, t[1], t[2]) }

TokenText(s, t) == SubSeq(s, t[1], DigitsEnd(s, t[1] + t[2]) - 1)

\* the query holds exactly one flight-number token and no continuation phrase
OneToken(ns) ==
    /\ Answered
    /\ Cardinality(Tokens(query, ns)) = 1
    /\ ~IsContinuation(query)

\* the turn went to the status provider with the token in upper case
StatusTurnFor(ns) ==
    /\ intent = "FlightStatus"
    /\ Len(calls) = 1
    /\ calls[1].provider = "status"
    /\ \A t \in Tokens(query, ns) : calls[1].flight_number = Upper(TokenText(query, t))

\* C8 as stated: a query with exactly one token of 2 or 3 letters followed by
\* 2 to 4 digits, in any case, and no continuation phrase is routed as
\* FlightStatus and the status provider gets the token in upper case.
C8_TokenRoutedToStatus == OneToken({ 2, 3 }) => StatusTurnFor({ 2, 3 })

\* C8, amended: a query with exactly one token of exactly 2 letters followed
\* by 2 to 4 digits, in any case, and no continuation phrase is routed as
\* FlightStatus with the token in upper case, unless the classifier is in
\* use and answers "price".
C8_TwoLetterTokenRoutedToStatus ==
    (OneToken({ 2 }) /\ ~Answers(s_price)) => StatusTurnFor({ 2 })

\* "dl45" goes to the status provider as DL45
C8_Witness ==
    /\ OneToken({ 2 })
    /\ query = <<"d","l","4","5">>
    /\ StatusTurnFor({ 2 })
    /\ calls[1].flight_number = <<"D","L","4","5">>

\* C9: after handle_query has routed an analytics query that names a route,
\* memory holds the turn's intent, origin, destination, year and limit for
\* the continuation query that follows.
C9_RoutedTurnIsRemembered ==
    (Answered /\ calls # << >> /\ calls[1].provider = "analytics") =>
        /\ memory.last_query_type # None
        /\ memory.last_origin = Some(calls[1].origin)
        /\ memory.last_destination = Some(calls[1].destination)
        /\ memory.last_year = Some(calls[1].year)
        /\ memory.last_limit = Some(calls[1].limit)

\* the texts of a turn whose resolution failed
RouterFailureTexts ==
    { "empty_query_help", "need_flight_number", "need_route_and_year",
      "analytics_unavailable", "analytics_unavailable_llm", "help_two_types" }

\* C10: a turn of handle_query calls at most one provider: the status
\* provider only when the working intent is FlightStatus (the classifier
\* does not answer "price" and the query holds a flight number), the
\* analytics provider only for the other intent (the classifier does not
\* answer "status"), and none when resolution fails.
C10_AtMostOneProvider ==
    Answered =>
        /\ Len(calls) <= 1
        /\ \A k \in DOMAIN calls :
             /\ calls[k].provider = "status" =>
                  /\ intent = "FlightStatus"
                  /\ ~Answers(s_price)
                  /\ RouterExtract(query).flight = Some(calls[k].flight_number)
             /\ calls[k].provider = "analytics" =>
                  /\ intent = "FareAnalysis"
                  /\ ~Answers(s_status)
                  /\ has_analytics
        /\ response \in RouterFailureTexts => calls = << >>

\* the classifier answers "price" and the one call of the turn is the
\* analytics call
C10_Witness ==
    /\ Answered
    /\ Answers(s_price)
    /\ Len(calls) = 1
    /\ calls[1].provider = "analytics"
    /\ intent = "FareAnalysis"

\* the turn took the analytics path: no flight number led it to the status
\* agent
AnalyticsPath == Answered /\ intent = "FareAnalysis"

UnavailableTexts == { "analytics_unavailable", "analytics_unavailable_llm" }

ResolutionHelpTexts == { "help_two_types", "need_route_and_year" }

\* C11: without an analytics provider, handle_query gates on availability
\* after resolution: a query that resolves gets the 'unavailable' text, a
\* query that fails resolution gets the resolution-failure help text, and in
\* neither case is a provider called or memory written.
C11_AvailabilityGateAfterResolution ==
    (AnalyticsPath /\ ~has_analytics) =>
        /\ RouterExtract(query).params # None => response \in UnavailableTexts
        /\ RouterExtract(query).params = None => response \in ResolutionHelpTexts
        /\ calls = << >>
        /\ memory = memBefore

\* memory was written at the end of the turn, which the code does when
\* _parse_query set origin and destination
TurnRouted ==
    /\ Answered
    /\ "origin" \in DOMAIN parsed
    /\ "destination" \in DOMAIN parsed

\* C12: the memory write after a routed turn keeps the previous year and
\* limit when the request leaves them unspecified and its intent equals the
\* stored intent, and clears them only when the intent differs.
C12_UnspecifiedFieldsCarriedForward ==
    TurnRouted =>
        /\ ( /\ memBefore.last_query_type = Some(parsed.type)
             /\ Extract(query).year = None ) => memory.last_year = memBefore.last_year
        /\ ( /\ memBefore.last_query_type = Some(parsed.type)
             /\ Extract(query).limit = None ) => memory.last_limit = memBefore.last_limit
        /\ ( /\ Extract(query).year = None
             /\ memBefore.last_year # None
             /\ memory.last_year = None ) => memBefore.last_query_type # Some(parsed.type)

----------------------------------------------------------------------------
(* analyze_flight_data statement by statement: the order of its steps *)

\* ParseQuery taking the next query while the turn before it has called
\* its analysis method and not yet written memory
ParseQuery_Reentrant ==
    /\ pc \in { "prompt", "dispatched" }
    /\ \E q \in AgentQueries :
         /\ query' = q
         /\ parsed' = parse_query(q, memory)
    /\ memBefore' = memory
    /\ pc' = "parsed"
    /\ response' = ""
    /\ calls' = << >>
    /\ UNCHANGED << memory, prevMissingRoute, RouterVars >>

\* ParseQuery keeping the year it read from the query in memory
ParseQuery_RemembersYear ==
    /\ pc = "prompt"
    /\ \E q \in AgentQueries :
         /\ query' = q
         /\ parsed' = parse_query(q, memory)
         /\ memory' = IF Extract(q).year # None
                      THEN [ memory EXCEPT !.last_year = Extract(q).year ]
                      ELSE memory
    /\ memBefore' = memory
    /\ pc' = "parsed"
    /\ UNCHANGED << response, calls, prevMissingRoute, RouterVars >>

\* line 50: parsed_query = self._parse_query(query)
ParseQuery ==
    /\ pc = "prompt"
    /\ \E q \in AgentQueries :
         /\ query' = q
         /\ parsed' = parse_query(q, memory)
    /\ memBefore' = memory
    /\ pc' = "parsed"
    /\ UNCHANGED << memory, response, calls, prevMissingRoute, RouterVars >>

\* lines 52-53: the dict with 'error' ends the turn
ReturnError ==
    /\ pc = "parsed"
    /\ "error" \in DOMAIN parsed
    /\ response' = parsed.error
    /\ pc' = "responded"
    /\ UNCHANGED << memory, query, parsed, calls, memBefore, prevMissingRoute, RouterVars >>

\* lines 58, 64 and 83-85: parsed_query['origin'] of a dict without the key
\* raises KeyError and the except clause returns the text
RaiseKeyError ==
    /\ pc = "parsed"
    /\ "error" \notin DOMAIN parsed
    /\ "origin" \notin DOMAIN parsed \/ "destination" \notin DOMAIN parsed
    /\ response' = "analyze_error"
    /\ pc' = "responded"
    /\ UNCHANGED << memory, query, parsed, calls, memBefore, prevMissingRoute, RouterVars >>

\* lines 56-76: result = self.get_...(...); response holds result from here on
CallAnalysis ==
    /\ pc = "parsed"
    /\ "error" \notin DOMAIN parsed
    /\ "origin" \in DOMAIN parsed /\ "destination" \in DOMAIN parsed
    /\ \E bq \in BqOutcomes :
         /\ response' = Analysis(parsed, bq).text
         /\ calls' = Analysis(parsed, bq).calls
    /\ pc' = "dispatched"
    /\ UNCHANGED << memory, query, parsed, memBefore, prevMissingRoute, RouterVars >>

\* UpdateMemory leaving memory alone when the analysis ended in one of the
\* database error texts
UpdateMemory_OnSuccessOnly ==
    /\ pc = "dispatched"
    /\ memory' = IF response \in { "db_not_found", "db_forbidden", "db_bad_request",
                                   "db_unexpected" }
                 THEN memory ELSE update_memory(parsed)
    /\ pc' = "written"
    /\ UNCHANGED << query, parsed, response, calls, memBefore, prevMissingRoute, RouterVars >>

\* line 79: self._update_memory(parsed_query)
UpdateMemory ==
    /\ pc = "dispatched"
    /\ memory' = update_memory(parsed)
    /\ pc' = "written"
    /\ UNCHANGED << query, parsed, response, calls, memBefore, prevMissingRoute, RouterVars >>

\* line 81: return result
ReturnResult ==
    /\ pc = "written"
    /\ pc' = "responded"
    /\ UNCHANGED << memory, query, parsed, response, calls, memBefore, prevMissingRoute,
                    RouterVars >>

StepNext ==
    ParseQuery \/ ReturnError \/ RaiseKeyError \/ CallAnalysis \/ UpdateMemory
    \/ ReturnResult \/ NextQuery

SpecSteps == AgentInit /\ [][StepNext]_vars

\* memory holds the resolved values of the turn
HoldsResolved ==
    /\ memory.last_query_type = Some(parsed.type)
    /\ memory.last_origin = Some(parsed.origin)
    /\ memory.last_destination = Some(parsed.destination)
    /\ memory.last_year = Get(parsed, "year")
    /\ memory.last_limit = Get(parsed, "limit")

\* C13: in a turn whose resolution succeeds memory is written exactly once,
\* after the provider call has returned and with the turn's resolved values,
\* whether the provider call succeeded or failed; memory is never written
\* before dispatch.
C13_MemoryWrittenOnceAfterDispatch ==
    [][ /\ memory' # memory => pc = "dispatched" /\ pc' = "written"
        /\ pc' = "written" => pc = "dispatched"
        /\ pc' = "dispatched" => pc = "parsed" /\ memory' = memBefore
        /\ (pc' = "responded" /\ TurnRouted') => pc = "written" /\ HoldsResolved ]_vars

\* the database call failed and memory holds the turn's values all the same
C13_Witness ==
    /\ pc = "written"
    /\ response = "db_not_found"
    /\ Len(calls) = 1
    /\ HoldsResolved
    /\ memory # memBefore

----------------------------------------------------------------------------
(* Properties of the values the router hands to the analytics agent (Spec) *)

\* the years a query names: its standalone numbers of four digits
YearTokens(q) ==
    { ParseInt(SubSeq(q, i, i + 3)) :
        i \in { j \in 1..(Len(q) - 3) :
                  Boundary(q, j) /\ IsDigit(q[j]) /\ DigitsEnd(q, j) = j + 4 } }

\* the limit a query names after top, limit, first or show, as written
ExplicitRouterLimit(q) ==
    LET s == Lower(q)
        m == First({ i \in 1..Len(s) : KeywordN(s, i) # None })
    IN  IF m = None THEN None
        ELSE Some(ParseInt(SubSeq(s, KeywordN(s, m[1])[1][1], KeywordN(s, m[1])[1][2])))

\* C14: an explicit year below 1990 or above 2030 makes the turn fail and no
\* request is dispatched with that year (the router's side of the claim).
C14_YearOutsideRangeRejected ==
    ( /\ AnalyticsPath
      /\ \E y \in YearTokens(query) : y < MinYear \/ y > MaxYear )
    => /\ calls = << >>
       /\ response \in RouterFailureTexts \cup { "year_out_of_range" }

\* C15: an explicit limit of 0 or of 51 and above makes the turn fail; it is
\* not silently replaced by another value (the router's side of the claim).
C15_LimitOutsideRangeRejected ==
    ( /\ AnalyticsPath
      /\ ExplicitRouterLimit(query) # None
      /\ ExplicitRouterLimit(query)[1] \notin MinLimit..MaxLimit )
    => /\ calls = << >>
       /\ response \in RouterFailureTexts \cup { "limit_out_of_range" }

\* C16: a query that names two airport codes and gives no year and no limit
\* resolves with the default limit and is dispatched to the analytics
\* provider; a missing year is never a resolution failure (the router's side
\* of the claim, default limit 5).
C16_MissingYearIsNoFailure ==
    ( /\ AnalyticsPath
      /\ has_analytics
      /\ Len(RouterAirports(query)) >= 2
      /\ YearTokens(query) = {}
      /\ ExplicitRouterLimit(query) = None )
    => /\ Len(calls) = 1
       /\ calls[1].provider = "analytics"
       /\ calls[1].origin = RouterAirports(query)[1]
       /\ calls[1].destination = RouterAirports(query)[2]
       /\ calls[1].limit = RouterDefaultLimit
       /\ response \notin RouterFailureTexts

\* the analytics call of the turn, if there is one
AnalyticsCalled == Answered /\ calls # << >> /\ calls[1].provider = "analytics"

\* C17: no word of the stoplist (THE, FOR, DAY, HOW, ...) is ever taken as
\* origin or destination (the router's side of the claim).
C17_StoplistWordNeverAirport ==
    AnalyticsCalled => /\ calls[1].origin \notin common_words
                       /\ calls[1].destination \notin common_words

\* C18: when a query has two or more airport candidates (its standalone
\* 3-letter tokens minus the stoplist words), the resolved origin is the
\* first candidate and the destination the second, with or without a
\* continuation phrase (the router's side of the claim).
C18_FirstTwoCandidatesAreRoute ==
    (AnalyticsCalled /\ Len(AirportCodes(query)) >= 2) =>
        /\ calls[1].origin = AirportCodes(query)[1]
        /\ calls[1].destination = AirportCodes(query)[2]

C20_NoClassifierNoClassification ==
    (Answered /\ (~use_llm_arg \/ ~has_llm_client)) =>
        /\ llm_reply = None
        /\ \E st \in StatusOutcomes :
             RegexTurn(route_by_regex(RouterExtract(query), has_analytics, st))

\* LLM routing was asked for without a classifier function and the turn went
\* to the status agent by the flight number pattern
C20_Witness ==
    /\ Answered
    /\ use_llm_arg
    /\ ~has_llm_client
    /\ llm_reply = None
    /\ Len(calls) = 1
    /\ calls[1].provider = "status"
    /\ calls[1].flight_number = <<"A","A","1","2","3">>

----------------------------------------------------------------------------
(* Properties of consecutive turns of handle_query (Spec) *)

\* C21: a continuation query that follows a routed turn is sent to the
\* provider of that previous turn, and the classifier is not invoked again.
C21_ContinuationReusesLastProvider ==
    (Answered /\ lastRouted # "" /\ IsContinuation(query)) =>
        /\ llm_reply = None
        /\ Len(calls) = 1
        /\ calls[1].provider = lastRouted

----------------------------------------------------------------------------
(* Properties of the intent and the year analyze_flight_data resolves
   (SpecAgent) *)

\* the query holds day-of-week vocabulary
DayVocabulary(q) == \E p \in day_phrases : Contains(Lower(q), p)

\* C22: a query that holds day-of-week vocabulary and resolves has the
\* intent day_of_week_delays, whatever intent memory holds and whichever
\* branch resolved its route.
C22_DayVocabularyGivesDayIntent ==
    (TurnRouted /\ DayVocabulary(query)) => parsed.type = "day_of_week_delays"

\* the query holds on-time ranking vocabulary
AirlineVocabulary(q) == Contains(Lower(q), s_airlines)

\* C23: a query that holds airline vocabulary, no day-of-week vocabulary,
\* and resolves has the intent on_time_airlines, also on a continuation
\* without airport codes when memory's intent is day_of_week_delays.
C23_AirlineVocabularyGivesRankingIntent ==
    (TurnRouted /\ AirlineVocabulary(query) /\ ~DayVocabulary(query)) =>
        parsed.type = "on_time_airlines"

\* the years each query of a session names
ExplicitYears == [ q \in AgentQueries |-> YearTokens(q) ]

\* C24: when a resolving query gives no explicit year, the resolved year is
\* memory's year if the query holds a continuation phrase and memory has a
\* year, and is unset otherwise; an explicit year takes precedence over
\* memory's.
C24_YearBorrowedOnlyOnContinuation ==
    TurnRouted =>
        /\ ExplicitYears[query] # {} =>
             "year" \in DOMAIN parsed /\ parsed.year \in ExplicitYears[query]
        /\ (ExplicitYears[query] = {} /\ Extract(query).continuation /\ memBefore.last_year # None)
             => Get(parsed, "year") = memBefore.last_year
        /\ (ExplicitYears[query] = {} /\ ~(Extract(query).continuation /\ memBefore.last_year # None))
             => "year" \notin DOMAIN parsed

\* a continuation naming a new airport takes the year 2023 from memory
C24_Witness ==
    /\ TurnRouted
    /\ Extract(query).continuation
    /\ Len(Extract(query).codes) = 1
    /\ ExplicitYears[query] = {}
    /\ memBefore.last_year = Some(2023)
    /\ parsed.year = 2023

----------------------------------------------------------------------------
(* Properties of the status route of handle_query (Spec) *)

\* C25: when the classifier answers 'status' and the query holds no flight
\* number, the turn ends with the missing-flight-number message, calls no
\* provider and does not fall back to the analytics route.
C25_StatusWithoutFlightNumber ==
    (Answered /\ Answers(s_status) /\ Tokens(query, { 2 }) = {}) =>
        /\ response = "need_flight_number"
        /\ calls = << >>
        /\ intent = "FlightStatus"

\* the classifier answers 'status' for a query that names a route and a
\* year: the analytics agent is not called
C25_Witness ==
    /\ Answered
    /\ Answers(s_status)
    /\ has_analytics
    /\ query = <<"S","F","O"," ","J","F","K"," ","2","0","2","4">>
    /\ response = "need_flight_number"
    /\ calls = << >>

----------------------------------------------------------------------------
(* Properties of the order of turns of analyze_flight_data (SpecSteps) *)

----------------------------------------------------------------------------
(* Properties of what memory holds after a turn (SpecAgent) *)

\* C27: after any sequence of turns, last_query_type, last_origin and
\* last_destination are all unset or all set.
C27_IntentAndRouteSetTogether ==
    \/ /\ memory.last_query_type = None
       /\ memory.last_origin = None
       /\ memory.last_destination = None
    \/ /\ memory.last_query_type # None
       /\ memory.last_origin # None
       /\ memory.last_destination # None

\* a continuation naming one airport on empty memory resolves to an intent
\* without a route, and memory stays unset
C27_Witness ==
    /\ Answered
    /\ DOMAIN parsed = { "type" }
    /\ response = "analyze_error"
    /\ memory = EmptyMemory

\* C28: a continuation query naming one airport code never resolves to a
\* request whose origin equals its destination when memory's origin and
\* destination differ, also when the code equals one of them.
C28_OneCodeNeverCollapsesRoute ==
    ( /\ TurnRouted
      /\ Extract(query).continuation
      /\ Len(Extract(query).codes) = 1
      /\ HasRoute(memBefore)
      /\ memBefore.last_origin # memBefore.last_destination )
    => parsed.origin # parsed.destination

\* a follow-up without airport codes that holds none of 'what about' and
\* 'how about', resolved from a memory that holds a route
FollowUpOnly ==
    /\ TurnRouted
    /\ Extract(query).codes = << >>
    /\ Extract(query).follow_up
    /\ ~Extract(query).continuation
    /\ HasRoute(memBefore)

====
